---- MODULE Spec2Model ----
(***************************************************************************)
(* A model of process-roll-images.py: the per-identifier pipeline of       *)
(* main() and the functions it calls, over an abstract filesystem.         *)
(*                                                                         *)
(* Python values: None is NoneVal where the value is otherwise a record    *)
(* (manifest, URL, path, file) and the string "None" where it is otherwise *)
(* a string (roll type).  A dict is a record with a field keys holding the *)
(* keys present.  A function that can raise returns a record with a field  *)
(* raised; what it wrote before raising stays written.                     *)
(***************************************************************************)
EXTENDS Naturals, Sequences, FiniteSets

NoneVal == [none |-> TRUE]

(* ---------------------------------------------------------------------- *)
(* Static tables                                                           *)
(* ---------------------------------------------------------------------- *)

ROLL_TYPES ==
  {"welte-red", "88-note", "65-note", "welte-green", "welte-licensee", "duo-art"}

ROLL_TYPE_KEYS ==
  { "Welte-Mignon red roll (T-100)", "Welte-Mignon red roll (T-100).",
    "Welte-Mignon red roll (T-100)..", "Scale: 88n", "Scale: 88n.",
    "Scale: 65n.", "88n", "65n", "standard", "non-reproducing",
    "Welte-Mignon green roll (T-98)", "Welte-Mignon green roll (T-98).",
    "Welte-Mignon licensee roll", "Welte-Mignon licensee roll.",
    "Welte-Mignon licensee roll (T-98).", "Duo-Art piano rolls",
    "Duo-Art piano rolls." }

ROLL_TYPE_ENTRIES(text) ==
  CASE text \in { "Welte-Mignon red roll (T-100)", "Welte-Mignon red roll (T-100).",
                  "Welte-Mignon red roll (T-100).." } -> "welte-red"
    [] text \in { "Scale: 88n", "Scale: 88n.", "88n", "standard",
                  "non-reproducing" } -> "88-note"
    [] text \in { "Scale: 65n.", "65n" } -> "65-note"
    [] text \in { "Welte-Mignon green roll (T-98)",
                  "Welte-Mignon green roll (T-98)." } -> "welte-green"
    [] text \in { "Welte-Mignon licensee roll", "Welte-Mignon licensee roll.",
                  "Welte-Mignon licensee roll (T-98)." } -> "welte-licensee"
    [] text \in { "Duo-Art piano rolls", "Duo-Art piano rolls." } -> "duo-art"

REVERSED_IMAGES ==
  { "yt837kd6607", "ws749sk4778", "hs635sh6729", "zw485gh6070", "xr682fm1233",
    "mx460bt7026", "cs175wr2428", "bz327kz4744", "wv912mm2332", "jw822wm2644",
    "fv104hn7521", "fy803vj4057", "kz379jn2491" }

ROLLS_TO_SKIP ==
  { "rr052wh1991", "zf037wk3650", "hm136vg1420", "df354sy6634", "sm367hr9769",
    "xc735nd8093" }

(* ---------------------------------------------------------------------- *)
(* URLs and paths.  A URL is the identifier it belongs to and the ending   *)
(* of its last path segment; str.endswith and Path.suffix are decided on   *)
(* that ending.                                                            *)
(* ---------------------------------------------------------------------- *)

Suffixes == {"_ir_sp.jp2", "_gs.jp2", "_gr.tiff", "_gr.tif", "_0001.jp2"}

EndsWith(url, s) ==
  CASE s = ".jp2"  -> url.suffix \in {"_ir_sp.jp2", "_gs.jp2", "_0001.jp2"}
    [] OTHER       -> url.suffix = s

\* Path(f"images/{image_url.split('/')[-1]}")
RemotePath(url) == [druid |-> url.druid, name |-> url.suffix]
\* Path(f"images/{druid}.tiff"), Path(f"images/{druid}.jp2")
TiffPath(druid) == [druid |-> druid, name |-> ".tiff"]
Jp2Path(druid)  == [druid |-> druid, name |-> ".jp2"]

\* path.suffix in (".tiff", ".tif")
IsTiffSuffix(path) == path.name \in {"_gr.tiff", "_gr.tif", ".tiff"}

(* ---------------------------------------------------------------------- *)
(* get_image_url.  A manifest is NoneVal or [keys, sequences, items]; a    *)
(* sequence is [keys, renderings, rendering, canvases]; a canvas is        *)
(* [keys, rendering]; a rendering is [keys, id, atid, format].             *)
(* ---------------------------------------------------------------------- *)

Returned(v) == [raised |-> FALSE, found |-> TRUE, ret |-> v]
Raised      == [raised |-> TRUE, found |-> FALSE, ret |-> NoneVal]
NotFound    == [raised |-> FALSE, found |-> FALSE, ret |-> NoneVal]

\* One pass of "for rendering in renderings", from position k on.
RECURSIVE ScanRenderings(_, _)
ScanRenderings(renderings, k) ==
  IF k > Len(renderings) THEN NotFound
  ELSE LET rendering == renderings[k] IN
    IF "@id" \notin rendering.keys THEN Raised
    ELSE
      LET isJp2Name  == EndsWith(rendering.atid, "_ir_sp.jp2") \/ EndsWith(rendering.atid, "_gs.jp2")
          isTiffName == EndsWith(rendering.atid, "_gr.tiff") \/ EndsWith(rendering.atid, "_gr.tif")
      IN
      IF isJp2Name /\ "format" \notin rendering.keys THEN Raised
      ELSE IF isJp2Name /\ rendering.format = "image/jp2" THEN Returned(rendering.atid)
      ELSE IF isTiffName /\ "format" \notin rendering.keys THEN Raised
      ELSE IF isTiffName /\ rendering.format \in {"image/tiff", "image/x-tiff-big"}
           THEN Returned(rendering.atid)
      ELSE ScanRenderings(renderings, k + 1)

\* [canvas["rendering"][0] for canvas in seq["canvases"]]
CanvasRenderings(canvases) ==
  IF \E i \in 1..Len(canvases) :
       "rendering" \notin canvases[i].keys \/ canvases[i].rendering = <<>>
  THEN Raised
  ELSE Returned([i \in 1..Len(canvases) |-> canvases[i].rendering[1]])

\* The candidate renditions of one sequence; found = FALSE is "continue".
SeqRenderings(seq) ==
  IF "renderings" \in seq.keys THEN Returned(seq.renderings)
  ELSE IF "rendering" \notin seq.keys
       THEN IF "canvases" \notin seq.keys THEN NotFound
            ELSE CanvasRenderings(seq.canvases)
  ELSE Returned(seq.rendering)

\* The body of "for seq in seqs" without lines 245-250: a list of one
\* rendering is scanned like any other.
SelectInSeqScanOnly(seq) ==
  LET rs == SeqRenderings(seq) IN
  IF rs.raised THEN Raised
  ELSE IF ~rs.found THEN NotFound
  ELSE ScanRenderings(rs.ret, 1)

\* The body of "for seq in seqs" for one sequence.
SelectInSeq(seq) ==
  LET rs == SeqRenderings(seq) IN
  IF rs.raised THEN Raised
  ELSE IF ~rs.found THEN NotFound
  ELSE LET renderings == rs.ret IN
    IF Len(renderings) = 1 /\ "id" \in renderings[1].keys THEN Returned(renderings[1].id)
    ELSE IF Len(renderings) = 1 /\ "@id" \in renderings[1].keys THEN Returned(renderings[1].atid)
    ELSE ScanRenderings(renderings, 1)

RECURSIVE ScanSeqs(_, _)
ScanSeqs(seqs, k) ==
  IF k > Len(seqs) THEN NotFound
  ELSE LET r == SelectInSeq(seqs[k]) IN
       IF r.raised \/ r.found THEN r ELSE ScanSeqs(seqs, k + 1)

get_image_url(iiif_manifest) ==
  IF iiif_manifest = NoneVal THEN NotFound
  ELSE IF "sequences" \notin iiif_manifest.keys /\ "items" \notin iiif_manifest.keys
       THEN NotFound
  ELSE ScanSeqs(IF "sequences" \in iiif_manifest.keys
                THEN iiif_manifest.sequences ELSE iiif_manifest.items, 1)

(* ---------------------------------------------------------------------- *)
(* get_iiif_manifest.  manifests[druid] is the cached manifest or NoneVal; *)
(* response is the manifest the server answers with, or NoneVal when the   *)
(* request or the JSON decoding fails.                                     *)
(* ---------------------------------------------------------------------- *)

get_iiif_manifest(druid, redownload_manifests, manifests, response) ==
  IF manifests[druid] # NoneVal /\ ~redownload_manifests
  THEN [ret |-> manifests[druid], manifests |-> manifests, requested |-> FALSE, wrote |-> FALSE]
  ELSE IF response = NoneVal
       THEN [ret |-> NoneVal, manifests |-> manifests, requested |-> TRUE, wrote |-> FALSE]
  ELSE [ret |-> response, manifests |-> [manifests EXCEPT ![druid] = response],
        requested |-> TRUE, wrote |-> TRUE]

(* ---------------------------------------------------------------------- *)
(* get_roll_type_for_druid.  A metadata document is [kind |-> "nomods"]    *)
(* (no "<mods" in the text), [kind |-> "malformed"] (lxml rejects it) or   *)
(* [kind |-> "mods", type_note, scale_note, notes]; a note text that is    *)
(* absent is "None".  response is a document, or [kind |-> "error"] when   *)
(* requests.get itself raises.                                             *)
(* ---------------------------------------------------------------------- *)

\* Lines 185-192 with the test of line 190 left out: every note that is a
\* key of ROLL_TYPE_ENTRIES replaces the roll type.
NoteStepUnguarded(roll_type, text) ==
  IF text \in ROLL_TYPE_KEYS THEN ROLL_TYPE_ENTRIES(text) ELSE roll_type

\* Lines 185-192: the body of the loop over the notes, for one note.
NoteStep(roll_type, text) ==
  IF text \in ROLL_TYPE_KEYS
     /\ (ROLL_TYPE_ENTRIES(text) # "88-note" \/ roll_type = "NA")
  THEN ROLL_TYPE_ENTRIES(text)
  ELSE roll_type

\* The "for note in xml_tree.xpath(...)" loop, from position k on.
RECURSIVE ScanNotes(_, _, _)
ScanNotes(notes, k, roll_type) ==
  IF k > Len(notes) THEN roll_type
  ELSE ScanNotes(notes, k + 1, NoteStep(roll_type, notes[k]))

\* Lines 173-174.
TypeStep(type_note) ==
  IF type_note # "None" /\ type_note \in ROLL_TYPE_KEYS
  THEN ROLL_TYPE_ENTRIES(type_note) ELSE "NA"

\* Lines 176-181.
ScaleStep(roll_type, type_note, scale_note) ==
  IF scale_note # "None" /\ scale_note \in ROLL_TYPE_KEYS
     /\ (roll_type = "NA" \/ type_note = "standard")
  THEN ROLL_TYPE_ENTRIES(scale_note) ELSE roll_type

\* Line 183.
EntersNotes(roll_type, type_note) == roll_type = "NA" \/ type_note = "standard"

\* Lines 166-194: the roll type of a parsed record.
ClassifyRecord(type_note, scale_note, notes) ==
  LET rt1 == TypeStep(type_note)
      rt2 == ScaleStep(rt1, type_note, scale_note)
  IN IF EntersNotes(rt2, type_note) THEN ScanNotes(notes, 1, rt2) ELSE rt2

\* The values roll_type takes while the loop runs from position k on.
RECURSIVE NotesTrace(_, _, _)
NotesTrace(notes, k, roll_type) ==
  IF k > Len(notes) THEN <<>>
  ELSE LET next == NoteStep(roll_type, notes[k])
       IN <<next>> \o NotesTrace(notes, k + 1, next)

\* The values roll_type takes in lines 166-194, in order: the initial "NA",
\* after the type note, after the scale note, after each note of the loop.
ClassifyTrace(type_note, scale_note, notes) ==
  LET rt1 == TypeStep(type_note)
      rt2 == ScaleStep(rt1, type_note, scale_note)
  IN <<"NA", rt1, rt2>>
       \o (IF EntersNotes(rt2, type_note) THEN NotesTrace(notes, 1, rt2) ELSE <<>>)

\* Lines 153-194 on the text xml_data.
ParseAndClassify(xml_data) ==
  IF xml_data.kind = "nomods" THEN [raised |-> TRUE, ret |-> "None"]
  ELSE IF xml_data.kind = "malformed" THEN [raised |-> FALSE, ret |-> "None"]
  ELSE [raised |-> FALSE,
        ret |-> ClassifyRecord(xml_data.type_note, xml_data.scale_note, xml_data.notes)]

get_roll_type_for_druid(druid, redownload_xml, xml, response) ==
  IF xml[druid] = NoneVal \/ redownload_xml
  THEN IF response.kind = "error"
       THEN [raised |-> TRUE, ret |-> "None", xml |-> xml, requested |-> TRUE, wrote |-> FALSE]
       ELSE LET r == ParseAndClassify(response) IN
            [raised |-> r.raised, ret |-> r.ret, xml |-> [xml EXCEPT ![druid] = response],
             requested |-> TRUE, wrote |-> TRUE]
  ELSE LET r == ParseAndClassify(xml[druid]) IN
       [raised |-> r.raised, ret |-> r.ret, xml |-> xml, requested |-> FALSE, wrote |-> FALSE]

(* ---------------------------------------------------------------------- *)
(* Image files.  fs[path] is NoneVal (no such file) or a record:           *)
(*   lr, tb  the parity of the left-right and top-bottom flips of the      *)
(*           pixels relative to the source bytes as served;                *)
(*   auto    how many times the REVERSED_IMAGES flip was applied to the    *)
(*           file since its bytes were written;                            *)
(*   supp    whether --mirror-images was asked for and not applied in the  *)
(*           call that wrote the file;                                     *)
(*   gen     the call whose request delivered the bytes (0: the file was   *)
(*           put there by the user).                                       *)
(* ---------------------------------------------------------------------- *)

IsFile(fs, path) == fs[path] # NoneVal

\* copyfileobj(response.raw, image_file)
RawFile(tick) == [lr |-> 0, tb |-> 0, auto |-> 0, supp |-> FALSE, gen |-> tick]

\* decode + Image.fromarray + optional transpose(FLIP_TOP_BOTTOM) + save
ConvertedFile(src, flipTB) ==
  [lr |-> src.lr, tb |-> IF flipTB THEN 1 - src.tb ELSE src.tb,
   auto |-> 0, supp |-> FALSE, gen |-> src.gen]

\* flip_image_left_right leaving the pixels as they were.
FlippedFileUnchanged(f, automatic) ==
  [f EXCEPT !.auto = IF automatic THEN f.auto + 1 ELSE f.auto]

\* flip_image_left_right on a file that exists; automatic is TRUE for the
\* call at line 378.
FlippedFile(f, automatic) ==
  [f EXCEPT !.lr = 1 - f.lr, !.auto = IF automatic THEN f.auto + 1 ELSE f.auto]

ImageResult(raised, ret, fs, requested, tbflip, auto, user) ==
  [raised |-> raised, ret |-> ret, fs |-> fs, requested |-> requested,
   tbflip |-> tbflip, auto |-> auto, user |-> user]

\* Lines 343-347: the source is a TIFF that is stored locally.
CachedTiff(redownload_image, fs, target_pathname) ==
  ~redownload_image /\ IsFile(fs, target_pathname) /\ IsTiffSuffix(target_pathname)

\* Line 351.
NeedsDownload(redownload_image, fs, image_filepath) ==
  ~IsFile(fs, image_filepath) \/ redownload_image

\* Line 382 without the test of image_already_mirrored.
MirrorNowAlways(mirror_roll, image_already_mirrored) == mirror_roll

\* Lines 382-383 left out: --mirror-images is never acted upon.
MirrorNowNever(mirror_roll, image_already_mirrored) == FALSE

\* Line 382.
MirrorNow(mirror_roll, image_already_mirrored) ==
  mirror_roll /\ ~image_already_mirrored

\* status_ok: the server answers the image request with status 200.
get_roll_image(druid, image_url, roll_type, redownload_image, mirror_roll, gen2scan, fs, status_ok, tick) ==
  IF image_url = NoneVal
  THEN ImageResult(TRUE, NoneVal, fs, FALSE, FALSE, FALSE, FALSE)
  ELSE
  LET target_pathname == RemotePath(image_url)
      isTiff == IsTiffSuffix(target_pathname)
      isJp2  == EndsWith(image_url, ".jp2")
  IN
  IF CachedTiff(redownload_image, fs, target_pathname)
  THEN ImageResult(FALSE, target_pathname, fs, FALSE, FALSE, FALSE, FALSE)
  ELSE
  LET download == NeedsDownload(redownload_image, fs, TiffPath(druid))
      source_filepath == IF download /\ isTiff THEN target_pathname
                         ELSE IF isJp2 THEN Jp2Path(druid) ELSE target_pathname
      image_filepath == IF download /\ isTiff THEN target_pathname ELSE TiffPath(druid)
      \* lines 356-363
      requested == download /\ ~(isJp2 /\ IsFile(fs, source_filepath))
      fs1 == IF requested /\ status_ok
             THEN [fs EXCEPT ![source_filepath] = RawFile(tick)] ELSE fs
      \* lines 366-374
      convert == download /\ isJp2
      decodeRaises == convert /\ ~IsFile(fs1, source_filepath)
      flipTB == convert /\ (gen2scan \/ roll_type # "welte-red")
      fs2 == IF convert /\ ~decodeRaises
             THEN [fs1 EXCEPT ![image_filepath] = ConvertedFile(fs1[source_filepath], flipTB)]
             ELSE fs1
      \* lines 377-379
      reversed == download /\ druid \in REVERSED_IMAGES
      autoRaises == reversed /\ ~IsFile(fs2, image_filepath)
      fs3 == IF reversed /\ ~autoRaises
             THEN [fs2 EXCEPT ![image_filepath] = FlippedFile(fs2[image_filepath], TRUE)]
             ELSE fs2
      image_already_mirrored == reversed
      \* lines 382-384
      explicit == MirrorNow(mirror_roll, image_already_mirrored)
      userRaises == explicit /\ ~IsFile(fs3, image_filepath)
      fs4 == IF explicit /\ ~userRaises
             THEN [fs3 EXCEPT ![image_filepath] = FlippedFile(fs3[image_filepath], FALSE)]
             ELSE IF mirror_roll /\ image_already_mirrored /\ IsFile(fs3, image_filepath)
             THEN [fs3 EXCEPT ![image_filepath].supp = TRUE]
             ELSE fs3
  IN
  IF decodeRaises THEN ImageResult(TRUE, NoneVal, fs1, requested, FALSE, FALSE, FALSE)
  ELSE IF autoRaises THEN ImageResult(TRUE, NoneVal, fs2, requested, flipTB, FALSE, FALSE)
  ELSE IF userRaises THEN ImageResult(TRUE, NoneVal, fs3, requested, flipTB, reversed, FALSE)
  ELSE ImageResult(FALSE, image_filepath, fs4, requested, flipTB, reversed, explicit)

(* ---------------------------------------------------------------------- *)
(* parse_roll_image.  txt[druid] is NoneVal or [lines |-> the report's     *)
(* text split at "\n"] (a text ending in a newline has "" as its last      *)
(* element).  The shell creates txt/<druid>.txt before tiff2holes runs, so *)
(* the report exists after the call whatever tiff2holes does; output is    *)
(* what it printed.  The switches of the command are not modelled.         *)
(* ---------------------------------------------------------------------- *)

\* A redirection that creates the file only when the tool prints something.
RedirectedUnlessEmpty(output) ==
  IF output = << "" >> THEN NoneVal ELSE [lines |-> output]

\* Line 443, "> txt/{druid}.txt": the shell creates or truncates the file
\* before the tool starts, and the file holds whatever the tool printed.
Redirected(output) == [lines |-> output]

parse_roll_image(druid, image_filepath, roll_type, tiff2holes_exists, txt, output) ==
  IF ~tiff2holes_exists THEN [invoked |-> FALSE, txt |-> txt]
  ELSE IF image_filepath = NoneVal \/ roll_type = "NA" THEN [invoked |-> FALSE, txt |-> txt]
  ELSE [invoked |-> TRUE, txt |-> [txt EXCEPT ![druid] = Redirected(output)]]

(* ---------------------------------------------------------------------- *)
(* extract_midi_from_analysis and convert_binasc_to_midi.                  *)
(* ---------------------------------------------------------------------- *)

StartsWithAt(line) == line \in {"@HOLE_MIDIFILE:", "@MIDIFILE:", "@@END"}

\* The first line equal to the marker (re.search with ^...$ under re.M), 0 if none.
MarkerLine(lines, marker) ==
  IF \E i \in 1..Len(lines) : lines[i] = marker
  THEN CHOOSE i \in 1..Len(lines) :
         lines[i] = marker /\ \A j \in 1..(i - 1) : lines[j] # marker
  ELSE 0

\* The first line after position i that begins with "@" (the first "\n@" of
\* group(1)), Len(lines) + 1 if none.
NextAtLine(lines, i) ==
  IF \E j \in (i + 1)..Len(lines) : StartsWithAt(lines[j])
  THEN CHOOSE j \in (i + 1)..Len(lines) :
         StartsWithAt(lines[j]) /\ \A k \in (i + 1)..(j - 1) : ~StartsWithAt(lines[k])
  ELSE Len(lines) + 1

\* re.search(...).group(1).split("\n@")[0], split at "\n": group(1) begins at
\* the end of the marker line, so the text begins with that line's "\n".
SectionText(lines, i) ==
  <<"">> \o SubSeq(lines, i + 1, NextAtLine(lines, i) - 1)

\* midi[druid] is [raw, note, exp], each TRUE when the .mid file exists;
\* binasc_files[druid] is [raw, note], each NoneVal or [lines |-> text].
\* converted: the binasc process produced its output file.
convert_binasc_to_midi(binasc_data, druid, midi_type, binasc_exists, files, converted) ==
  IF ~binasc_exists THEN files
  ELSE [binasc_files |-> [files.binasc_files EXCEPT ![druid][midi_type] = [lines |-> binasc_data]],
        midi |-> IF converted THEN [files.midi EXCEPT ![druid][midi_type] = TRUE]
                 ELSE files.midi,
        ran |-> files.ran \cup {midi_type}]

ExtractResult(raised, files) ==
  [raised |-> raised, midi |-> files.midi, binasc_files |-> files.binasc_files,
   ran |-> files.ran]

extract_midi_from_analysis(druid, regenerate_midi, binasc_exists, txt, midi, binasc_files, converted) ==
  LET files0 == [binasc_files |-> binasc_files, midi |-> midi, ran |-> {}] IN
  IF txt[druid] = NoneVal THEN ExtractResult(FALSE, files0)
  ELSE IF ~regenerate_midi /\ midi[druid]["note"] THEN ExtractResult(FALSE, files0)
  ELSE
  LET contents == txt[druid].lines
      h == MarkerLine(contents, "@HOLE_MIDIFILE:")
      n == MarkerLine(contents, "@MIDIFILE:")
  IN
  IF h = 0 THEN ExtractResult(TRUE, files0)
  ELSE
  LET files1 == convert_binasc_to_midi(SectionText(contents, h), druid, "raw",
                                       binasc_exists, files0, converted["raw"])
  IN
  IF n = 0 THEN ExtractResult(TRUE, files1)
  ELSE ExtractResult(FALSE,
         convert_binasc_to_midi(SectionText(contents, n), druid, "note",
                                binasc_exists, files1, converted["note"]))

(* ---------------------------------------------------------------------- *)
(* apply_midi_expressions.  synthesized: midi2exp produced its output.     *)
(* ---------------------------------------------------------------------- *)

\* Lines 516-517 left out: no roll type is excluded.
NoExpressionForNone(roll_type) == FALSE

\* Line 516.
NoExpressionFor(roll_type) == roll_type = "65-note"

apply_midi_expressions(druid, roll_type, midi2exp_exists, midi, synthesized) ==
  IF ~midi2exp_exists THEN [invoked |-> FALSE, midi |-> midi]
  ELSE IF ~midi[druid]["note"] THEN [invoked |-> FALSE, midi |-> midi]
  ELSE IF NoExpressionFor(roll_type) THEN [invoked |-> FALSE, midi |-> midi]
  ELSE [invoked |-> TRUE,
        midi |-> IF synthesized THEN [midi EXCEPT ![druid]["exp"] = TRUE] ELSE midi]

(* ---------------------------------------------------------------------- *)
(* Bounded inputs                                                          *)
(* ---------------------------------------------------------------------- *)

MaxList == 2
MaxSwitches == 2

\* One identifier of ROLLS_TO_SKIP, one of REVERSED_IMAGES, one of neither.
Druids == {"rr052wh1991", "yt837kd6607", "aa000aa0000"}

Switches ==
  { "redownload_manifests", "redownload_metadata", "redownload_images",
    "reprocess_images", "mirror_images", "regenerate_midi", "no_expression",
    "gen2scan" }

MidiTypes == {"raw", "note"}

Url(druid, suffix) == [druid |-> druid, suffix |-> suffix]

Rendering(url, format) == [keys |-> {"@id", "format"}, id |-> NoneVal, atid |-> url, format |-> format]

SeqOfRenderings(renderings) ==
  [keys |-> {"@id", "renderings"}, renderings |-> renderings, rendering |-> <<>>, canvases |-> <<>>]

ManifestOf(seqs) == [keys |-> {"@id", "sequences"}, sequences |-> seqs, items |-> <<>>]

\* What the manifest request of main() is answered with: nothing, a manifest
\* without sequences, one offering the monochrome TIFF beside a colour JP2,
\* one offering the greyscale JP2 beside a colour JP2.
ManifestResponses(druid) ==
  { NoneVal,
    [keys |-> {"@id"}, sequences |-> <<>>, items |-> <<>>],
    ManifestOf(<< SeqOfRenderings(<< Rendering(Url(druid, "_0001.jp2"), "image/jp2"),
                                     Rendering(Url(druid, "_gr.tiff"), "image/tiff") >>) >>),
    ManifestOf(<< SeqOfRenderings(<< Rendering(Url(druid, "_0001.jp2"), "image/jp2"),
                                     Rendering(Url(druid, "_gs.jp2"), "image/jp2") >>) >>) }

Mods(type_note, scale_note, notes) ==
  [kind |-> "mods", type_note |-> type_note, scale_note |-> scale_note, notes |-> notes]

\* What the metadata request of main() is answered with.
XmlResponses ==
  { [kind |-> "error"], [kind |-> "nomods"], [kind |-> "malformed"],
    Mods("None", "None", <<>>),
    Mods("Welte-Mignon red roll (T-100)", "None", <<>>),
    Mods("None", "65n", <<"88n">>) }

\* What tiff2holes prints: a full report, one without each marker, nothing.
Reports ==
  { << "@HOLE_MIDIFILE:", "AABB", "", "@MIDIFILE:", "CCDD", "", "" >>,
    << "@MIDIFILE:", "CCDD", "", "" >>,
    << "@HOLE_MIDIFILE:", "AABB", "", "@@END", "" >>,
    << "" >> }

ImagePaths ==
  UNION { {RemotePath(Url(d, s)) : s \in Suffixes} \cup {TiffPath(d), Jp2Path(d)} : d \in Druids }

Distinct(l) == \A i, j \in 1..Len(l) : i # j => l[i] # l[j]

\* All lists of distinct identifiers of length at most n.  (An identifier is
\* processed again by the function-level specifications, which call a
\* function repeatedly on the files its earlier calls left.)
RECURSIVE ListsUpTo(_)
ListsUpTo(n) ==
  IF n = 0 THEN {<<>>}
  ELSE LET shorter == ListsUpTo(n - 1) IN
       shorter \cup { l \in { Append(x, d) : x \in {y \in shorter : Len(y) = n - 1},
                                             d \in Druids } : Distinct(l) }

(* ---------------------------------------------------------------------- *)
(* main(): the state                                                       *)
(* ---------------------------------------------------------------------- *)

VARIABLES
  druids,         \* the input list
  args,           \* [roll_type, on]: --roll_type and the switches given
  idx,            \* position of the "for druid in druids" loop
  pc,             \* the statement of the loop body about to run
  iiif_manifest,  \* locals of main()
  roll_type,
  roll_image,
  manifests,      \* manifests/<druid>.json
  xml,            \* xml/<druid>.xml
  images,         \* images/*
  txt,            \* txt/<druid>.txt
  midi,           \* midi/{raw,note,exp}/<druid>_*.mid
  binasc_files,   \* binasc/<druid>_{raw,note}.binasc
  log,            \* per list position, the effects performed for it, in order
  outcome,        \* per list position: "pending", "skipped" or "done"
  call,           \* function-level specifications: the last call and its result
  ncalls          \* function-level specifications: the calls made so far

vars ==
  << druids, args, idx, pc, iiif_manifest, roll_type, roll_image,
     manifests, xml, images, txt, midi, binasc_files, log, outcome, call, ncalls >>

disk == << manifests, xml, images, txt, midi, binasc_files >>

Flag(name) == name \in args.on

NoFiles ==
  /\ manifests = [d \in Druids |-> NoneVal]
  /\ xml = [d \in Druids |-> NoneVal]
  /\ txt = [d \in Druids |-> NoneVal]
  /\ midi = [d \in Druids |-> [raw |-> FALSE, note |-> FALSE, exp |-> FALSE]]
  /\ binasc_files = [d \in Druids |-> [raw |-> NoneVal, note |-> NoneVal]]

\* images/ holding nothing but <druid>.tiff files the user put there.
LocalImages(local) ==
  [p \in ImagePaths |-> IF \E d \in local : p = TiffPath(d) THEN RawFile(0) ELSE NoneVal]

Init ==
  /\ druids \in ListsUpTo(MaxList)
  /\ args \in [roll_type : {"NA"} \cup ROLL_TYPES,
               on : {S \in SUBSET Switches : Cardinality(S) <= MaxSwitches}]
  /\ idx = 1
  /\ pc = "loop"
  /\ iiif_manifest = NoneVal
  /\ roll_type = "NA"
  /\ roll_image = NoneVal
  /\ NoFiles
  /\ \E local \in SUBSET {"aa000aa0000"} : images = LocalImages(local)
  /\ log = [i \in 1..Len(druids) |-> <<>>]
  /\ outcome = [i \in 1..Len(druids) |-> "pending"]
  /\ call = NoneVal
  /\ ncalls = 0

Logged(entries) == log' = [log EXCEPT ![idx] = log[idx] \o entries]

If(cond, entry) == IF cond THEN <<entry>> ELSE <<>>

\* An exception leaves main(): the process ends with a traceback.
Crash == pc' = "crashed"

(* ---------------------------------------------------------------------- *)
(* main(): one action per statement of the loop body                       *)
(* ---------------------------------------------------------------------- *)

\* The loop body with lines 673-684 and line 686 in each other's place.
AfterSwapped(statement) ==
  CASE statement = "loop"      -> "manifest"
    [] statement = "manifest"  -> "roll_type"
    [] statement = "roll_type" -> "image"
    [] statement = "image"     -> "extract"
    [] statement = "extract"   -> "parse"
    [] statement = "parse"     -> "express"
    [] statement = "express"   -> "loop"

\* The statement of the loop body that follows statement when it returns:
\* lines 656, 658-662, 664-671, 673-684, 686, 688-689, and back to line 649.
After(statement) ==
  CASE statement = "loop"      -> "manifest"
    [] statement = "manifest"  -> "roll_type"
    [] statement = "roll_type" -> "image"
    [] statement = "image"     -> "parse"
    [] statement = "parse"     -> "extract"
    [] statement = "extract"   -> "express"
    [] statement = "express"   -> "loop"

\* Line 650 with a test that no identifier passes.
InSkipListNever(druid) == FALSE

\* Line 650: druid in ROLLS_TO_SKIP.
InSkipList(druid) == druid \in ROLLS_TO_SKIP

\* Lines 650-652.
SkipDruid ==
  /\ pc = "loop" /\ idx <= Len(druids)
  /\ InSkipList(druids[idx])
  /\ outcome' = [outcome EXCEPT ![idx] = "skipped"]
  /\ idx' = idx + 1
  /\ UNCHANGED << druids, args, pc, iiif_manifest, roll_type, roll_image,
                  disk, log, call, ncalls >>

\* Files are namespaced by identifier and the list holds each identifier
\* once, so main() never again reads a file of an identifier it has finished.
\* When the loop starts the next identifier the model drops those files, the
\* finished identifiers' effect lists and the stale locals from the state:
\* the states of a list are then the sum, not the product, of its items'.
Finished == {druids[i] : i \in 1..(idx - 1)}

Kept(files, empty) == [d \in Druids |-> IF d \in Finished THEN empty ELSE files[d]]

\* Line 654.
BeginDruid ==
  /\ pc = "loop" /\ idx <= Len(druids)
  /\ ~InSkipList(druids[idx])
  /\ pc' = After("loop")
  /\ manifests' = Kept(manifests, NoneVal)
  /\ xml' = Kept(xml, NoneVal)
  /\ txt' = Kept(txt, NoneVal)
  /\ midi' = Kept(midi, [raw |-> FALSE, note |-> FALSE, exp |-> FALSE])
  /\ binasc_files' = Kept(binasc_files, [raw |-> NoneVal, note |-> NoneVal])
  /\ images' = [p \in ImagePaths |-> IF p.druid \in Finished THEN NoneVal ELSE images[p]]
  /\ log' = [i \in 1..Len(druids) |-> <<>>]
  /\ iiif_manifest' = NoneVal
  /\ roll_type' = "NA"
  /\ roll_image' = NoneVal
  /\ UNCHANGED << druids, args, idx, outcome, call, ncalls >>

\* Line 656.
GetManifest ==
  /\ pc = "manifest"
  /\ \E response \in ManifestResponses(druids[idx]) :
       LET r == get_iiif_manifest(druids[idx], Flag("redownload_manifests"), manifests, response)
       IN /\ iiif_manifest' = r.ret
          /\ manifests' = r.manifests
          /\ Logged(If(r.requested, "request manifest") \o If(r.wrote, "write manifest"))
  /\ pc' = After("manifest")
  /\ UNCHANGED << druids, args, idx, roll_type, roll_image,
                  xml, images, txt, midi, binasc_files, outcome, call, ncalls >>

\* Line 658 with a test that never holds: --roll-type is ignored.
UsesGivenRollTypeNever == FALSE

\* Line 658.
UsesGivenRollType == args.roll_type # "NA"

\* Lines 658-662.
GetRollType ==
  /\ pc = "roll_type"
  /\ IF UsesGivenRollType
     THEN /\ roll_type' = args.roll_type
          /\ pc' = After("roll_type")
          /\ UNCHANGED << xml, log >>
     ELSE \E response \in XmlResponses :
            LET r == get_roll_type_for_druid(druids[idx], Flag("redownload_metadata"), xml, response)
            IN /\ roll_type' = r.ret
               /\ xml' = r.xml
               /\ Logged(If(r.requested, "request xml") \o If(r.wrote, "write xml")
                         \o If(r.raised, "raise in get_roll_type_for_druid"))
               /\ IF r.raised THEN Crash ELSE pc' = After("roll_type")
  /\ UNCHANGED << druids, args, idx, iiif_manifest, roll_image,
                  manifests, images, txt, midi, binasc_files, outcome, call, ncalls >>

\* Lines 664-671.
GetImage ==
  /\ pc = "image"
  /\ LET u == get_image_url(iiif_manifest) IN
     IF u.raised
     THEN /\ Crash
          /\ Logged(<<"raise in get_image_url">>)
          /\ UNCHANGED << roll_image, images >>
     ELSE \E status_ok \in BOOLEAN :
            LET r == get_roll_image(druids[idx], u.ret, roll_type, Flag("redownload_images"),
                                    Flag("mirror_images"), Flag("gen2scan"), images,
                                    status_ok, idx)
            IN /\ roll_image' = r.ret
               /\ images' = r.fs
               /\ Logged(If(r.requested, "request image")
                         \o If(r.requested /\ status_ok, "write image")
                         \o If(r.tbflip, "flip top-bottom")
                         \o If(r.auto, "flip left-right")
                         \o If(r.user, "flip left-right")
                         \o If(r.raised, "raise in get_roll_image"))
               /\ IF r.raised THEN Crash ELSE pc' = After("image")
  /\ UNCHANGED << druids, args, idx, iiif_manifest, roll_type,
                  manifests, xml, txt, midi, binasc_files, outcome, call, ncalls >>

\* Lines 673-675 without the test of txt/<druid>.txt.
ShouldParseAnyImage(reprocess_images, report, image_filepath) ==
  reprocess_images \/ image_filepath # NoneVal

\* Lines 673-675; report is txt/<druid>.txt, NoneVal when there is no file.
ShouldParse(reprocess_images, report, image_filepath) ==
  reprocess_images \/ (report = NoneVal /\ image_filepath # NoneVal)

\* Lines 673-684.
ParseImage ==
  /\ pc = "parse"
  /\ IF ShouldParse(Flag("reprocess_images"), txt[druids[idx]], roll_image)
     THEN \E output \in Reports, tiff2holes_exists \in BOOLEAN :
            LET r == parse_roll_image(druids[idx], roll_image, roll_type,
                                      tiff2holes_exists, txt, output)
            IN /\ txt' = r.txt
               /\ Logged(If(r.invoked, "run tiff2holes"))
     ELSE UNCHANGED << txt, log >>
  /\ pc' = After("parse")
  /\ UNCHANGED << druids, args, idx, iiif_manifest, roll_type, roll_image,
                  manifests, xml, images, midi, binasc_files, outcome, call, ncalls >>

\* Line 686.
ExtractMidi ==
  /\ pc = "extract"
  /\ \E converted \in [MidiTypes -> BOOLEAN], binasc_exists \in BOOLEAN :
       LET r == extract_midi_from_analysis(druids[idx], Flag("regenerate_midi"),
                                           binasc_exists, txt, midi, binasc_files,
                                           converted)
       IN /\ midi' = r.midi
          /\ binasc_files' = r.binasc_files
          /\ Logged(If("raw" \in r.ran, "run binasc raw")
                    \o If("note" \in r.ran, "run binasc note")
                    \o If(r.raised, "raise in extract_midi_from_analysis"))
          /\ IF r.raised THEN Crash ELSE pc' = After("extract")
  /\ UNCHANGED << druids, args, idx, iiif_manifest, roll_type, roll_image,
                  manifests, xml, images, txt, outcome, call, ncalls >>

\* Lines 688-689, and the end of the loop body.
ApplyExpressions ==
  /\ pc = "express"
  /\ IF ~Flag("no_expression")
     THEN \E synthesized \in BOOLEAN, midi2exp_exists \in BOOLEAN :
            LET r == apply_midi_expressions(druids[idx], roll_type, midi2exp_exists,
                                            midi, synthesized)
            IN /\ midi' = r.midi
               /\ Logged(If(r.invoked, "run midi2exp"))
     ELSE UNCHANGED << midi, log >>
  /\ outcome' = [outcome EXCEPT ![idx] = "done"]
  /\ idx' = idx + 1
  /\ pc' = After("express")
  /\ UNCHANGED << druids, args, iiif_manifest, roll_type, roll_image,
                  manifests, xml, images, txt, binasc_files, call, ncalls >>

Next ==
  \/ SkipDruid
  \/ BeginDruid
  \/ GetManifest
  \/ GetRollType
  \/ GetImage
  \/ ParseImage
  \/ ExtractMidi
  \/ ApplyExpressions

Spec == Init /\ [][Next]_vars

(* ---------------------------------------------------------------------- *)
(* get_roll_image called again and again for one identifier, each call on  *)
(* the files the earlier calls left, with every combination of arguments   *)
(* and either answer of the server.                                        *)
(* ---------------------------------------------------------------------- *)

MaxCalls == 3

\* The endings of the URLs the calls are given: the monochrome TIFF and the
\* greyscale JP2; "none" stands for image_url = None.
CallSuffixes == {"_gr.tiff", "_gs.jp2", "none"}

\* The variables the function-level specifications leave alone.
Idle ==
  /\ args = [roll_type |-> "NA", on |-> {}]
  /\ idx = 1
  /\ pc = "call"
  /\ iiif_manifest = NoneVal
  /\ roll_type = "NA"
  /\ roll_image = NoneVal
  /\ log = [i \in 1..1 |-> <<>>]
  /\ outcome = [i \in 1..1 |-> "pending"]
  /\ call = NoneVal
  /\ ncalls = 0

InitImage ==
  /\ druids \in {<<d>> : d \in Druids \ ROLLS_TO_SKIP}
  /\ Idle
  /\ NoFiles
  /\ \E local \in SUBSET {druids[1]} : images = LocalImages(local)

CallGetRollImage ==
  /\ pc = "call" /\ ncalls < MaxCalls
  /\ Len(druids) = 1 /\ druids[1] \notin ROLLS_TO_SKIP
  /\ \E suffix \in CallSuffixes, rt \in {"welte-red", "88-note"},
        redownload_image \in BOOLEAN, mirror_roll \in BOOLEAN,
        gen2scan \in BOOLEAN, status_ok \in BOOLEAN :
       LET druid == druids[1]
           image_url == IF suffix = "none" THEN NoneVal ELSE Url(druid, suffix)
           r == get_roll_image(druid, image_url, rt, redownload_image, mirror_roll,
                               gen2scan, images, status_ok, ncalls + 1)
       IN /\ images' = r.fs
          /\ call' = [ op |-> "get_roll_image", druid |-> druid, image_url |-> image_url,
                       roll_type |-> rt, redownload_image |-> redownload_image,
                       mirror_roll |-> mirror_roll, gen2scan |-> gen2scan,
                       status_ok |-> status_ok,
                       \* the files as the call found them
                       target_before |-> IF image_url = NoneVal THEN NoneVal
                                         ELSE images[RemotePath(image_url)],
                       tiff_before |-> images[TiffPath(druid)],
                       jp2_before |-> images[Jp2Path(druid)],
                       \* what the call did
                       raised |-> r.raised, ret |-> r.ret, requested |-> r.requested,
                       tbflip |-> r.tbflip, auto |-> r.auto, user |-> r.user ]
  /\ ncalls' = ncalls + 1
  /\ UNCHANGED << druids, args, idx, pc, iiif_manifest, roll_type, roll_image,
                  manifests, xml, txt, midi, binasc_files, log, outcome >>

NextImage == CallGetRollImage

SpecImage == InitImage /\ [][NextImage]_vars

(* ---------------------------------------------------------------------- *)
(* Claims about get_roll_image                                             *)
(* ---------------------------------------------------------------------- *)

IsImageCall == call # NoneVal /\ call.op = "get_roll_image" /\ call.image_url # NoneVal

\* The file a call without --redownload-images finds in the cache: the TIFF
\* under its remote filename, or the TIFF a JP2 was converted to.
CachedBefore ==
  IF IsTiffSuffix(RemotePath(call.image_url)) THEN call.target_before ELSE call.tiff_before

\* A later call on a cache hit, with --mirror-images and without
\* --redownload-images, of an asset whose first materialization flipped it
\* automatically and suppressed the mirror that was asked for.
MirrorAskedAgain ==
  /\ IsImageCall
  /\ call.mirror_roll /\ ~call.redownload_image
  /\ CachedBefore # NoneVal
  /\ CachedBefore.supp

\* C6 as claimed: for every source format, the later call flips the cached
\* file left-to-right exactly once.
C6_MirrorHonoredOnLaterRun ==
  MirrorAskedAgain =>
    /\ ~call.raised
    /\ call.user /\ ~call.auto
    /\ images[call.ret].lr = 1 - CachedBefore.lr

\* C6 as amended: for a JP2 source converted to images/<druid>.tiff the later
\* call flips the cached file left-to-right exactly once; for a TIFF cached
\* under its remote filename the later call returns the file as it is.
C6_MirrorHonoredOnLaterRunOfConvertedJp2 ==
  MirrorAskedAgain =>
    IF EndsWith(call.image_url, ".jp2")
    THEN /\ ~call.raised
         /\ call.ret = TiffPath(call.druid)
         /\ call.user /\ ~call.auto /\ ~call.tbflip /\ ~call.requested
         /\ images[call.ret].lr = 1 - call.tiff_before.lr
         /\ images[call.ret].tb = call.tiff_before.tb
    ELSE /\ ~call.raised
         /\ call.ret = RemotePath(call.image_url)
         /\ ~call.user /\ ~call.auto /\ ~call.tbflip /\ ~call.requested
         /\ images[call.ret] = call.target_before

C6_Witness ==
  /\ MirrorAskedAgain
  /\ EndsWith(call.image_url, ".jp2")
  /\ call.user
  /\ images[call.ret].lr = 0

\* The call wrote the file it returns from bytes it fetched or decoded.
FreshlyMaterialized ==
  /\ IsImageCall /\ ~call.raised
  /\ \/ call.requested /\ call.status_ok
     \/ EndsWith(call.image_url, ".jp2") /\ call.ret = TiffPath(call.druid)
        /\ (call.tiff_before = NoneVal \/ call.redownload_image)

\* C7 as claimed: a fresh materialization of a REVERSED_IMAGES identifier
\* leaves the file mirrored once; a call on the cached file without
\* --redownload-images and --mirror-images flips nothing; no file is ever
\* flipped automatically more than once after its bytes were written, and
\* never on a cache hit.
C7_AutomaticFlipOncePerMaterialization ==
  /\ \A p \in ImagePaths : images[p] # NoneVal => images[p].auto <= 1
  /\ IsImageCall =>
       /\ (FreshlyMaterialized /\ call.druid \in REVERSED_IMAGES)
            => images[call.ret].lr = 1 /\ images[call.ret].auto = 1
       /\ (~call.redownload_image /\ CachedBefore # NoneVal)
            => ~call.auto
       /\ (~call.redownload_image /\ ~call.mirror_roll /\ CachedBefore # NoneVal)
            => ~call.raised /\ ~call.user /\ ~call.tbflip /\ images[call.ret] = CachedBefore

(* ---------------------------------------------------------------------- *)
(* extract_midi_from_analysis called once on every report of a bounded     *)
(* length, with the .mid files of earlier runs present or not.             *)
(* ---------------------------------------------------------------------- *)

MaxLines == 4

Lines == {"@HOLE_MIDIFILE:", "@MIDIFILE:", "@@END", "AABB", "CCDD", ""}

RECURSIVE TextsUpTo(_)
TextsUpTo(n) ==
  IF n = 0 THEN {<<>>}
  ELSE LET shorter == TextsUpTo(n - 1) IN
       shorter \cup {Append(t, l) : t \in {x \in shorter : Len(x) = n - 1}, l \in Lines}

\* A text split at "\n" has at least one element.
ReportTexts == (TextsUpTo(MaxLines) \ {<<>>}) \cup Reports

TheDruid == "aa000aa0000"

InitExtract ==
  /\ druids = <<TheDruid>>
  /\ Idle
  /\ manifests = [d \in Druids |-> NoneVal]
  /\ xml = [d \in Druids |-> NoneVal]
  /\ images = LocalImages({})
  /\ binasc_files = [d \in Druids |-> [raw |-> NoneVal, note |-> NoneVal]]
  /\ \E report \in {NoneVal} \cup {[lines |-> t] : t \in ReportTexts} :
       txt = [d \in Druids |-> IF d = TheDruid THEN report ELSE NoneVal]
  /\ \E raw \in BOOLEAN, note \in BOOLEAN :
       midi = [d \in Druids |-> IF d = TheDruid
                                THEN [raw |-> raw, note |-> note, exp |-> FALSE]
                                ELSE [raw |-> FALSE, note |-> FALSE, exp |-> FALSE]]

CallExtract ==
  /\ pc = "call" /\ ncalls = 0
  /\ druids = <<TheDruid>>
  /\ \E regenerate_midi \in BOOLEAN, binasc_exists \in BOOLEAN,
        converted \in [MidiTypes -> BOOLEAN] :
       LET r == extract_midi_from_analysis(TheDruid, regenerate_midi, binasc_exists,
                                           txt, midi, binasc_files, converted)
       IN /\ midi' = r.midi
          /\ binasc_files' = r.binasc_files
          /\ call' = [ op |-> "extract_midi_from_analysis", druid |-> TheDruid,
                       regenerate_midi |-> regenerate_midi,
                       binasc_exists |-> binasc_exists,
                       midi_before |-> midi[TheDruid],
                       raised |-> r.raised, ran |-> r.ran ]
  /\ ncalls' = 1
  /\ UNCHANGED << druids, args, idx, pc, iiif_manifest, roll_type, roll_image,
                  manifests, xml, images, txt, log, outcome >>

NextExtract == CallExtract

SpecExtract == InitExtract /\ [][NextExtract]_vars

(* ---------------------------------------------------------------------- *)
(* Claims about extract_midi_from_analysis                                 *)
(* ---------------------------------------------------------------------- *)

IsExtractCall == call # NoneVal /\ call.op = "extract_midi_from_analysis"

Marker(midi_type) == IF midi_type = "raw" THEN "@HOLE_MIDIFILE:" ELSE "@MIDIFILE:"

HasMarker(midi_type) ==
  txt[TheDruid] # NoneVal /\ MarkerLine(txt[TheDruid].lines, Marker(midi_type)) # 0

\* The call gets as far as reading the report.
ReadsReport ==
  /\ IsExtractCall
  /\ txt[TheDruid] # NoneVal
  /\ call.regenerate_midi \/ ~call.midi_before["note"]

\* C4 as claimed: a report that lacks a marker does not make the call raise,
\* and the payload whose marker is present is still converted.
C4_MissingMarkerIsRecoverable ==
  (ReadsReport /\ call.binasc_exists /\ \E t \in MidiTypes : ~HasMarker(t)) =>
    /\ ~call.raised
    /\ \A t \in MidiTypes : t \in call.ran <=> HasMarker(t)

\* C5 as claimed: each payload kind is converted if and only if the report
\* exists and (regenerate is set or that kind's own .mid file is absent).
\* Stated for a report that has both markers and a binasc that exists.
C5_EachKindHasItsOwnCheck ==
  (IsExtractCall /\ call.binasc_exists /\ HasMarker("raw") /\ HasMarker("note")) =>
    \A t \in MidiTypes :
      t \in call.ran <=> (call.regenerate_midi \/ ~call.midi_before[t])

\* The lines after the marker line up to, and excluding, the next line that
\* begins with "@", each ended by its newline: split at "\n" that text ends
\* with an empty element.
LinesOfSection(lines, i) == SubSeq(lines, i + 1, NextAtLine(lines, i) - 1) \o <<"">>

\* A text split at "\n" whose last line is empty.
EndsWithBlankLine(t) == Len(t) >= 2 /\ t[Len(t)] = "" /\ t[Len(t) - 1] = ""

\* C8 as claimed: the text written for a payload kind is the lines of its
\* section and ends with a blank line; for the report of the claim the raw
\* text is AABB and a blank line, the note text CCDD and a blank line.
C8_SectionIsWrittenWithTrailingBlankLine ==
  IsExtractCall =>
    \A t \in call.ran :
      LET written == binasc_files[TheDruid][t].lines
          lines == txt[TheDruid].lines
      IN /\ written = LinesOfSection(lines, MarkerLine(lines, Marker(t)))
         /\ EndsWithBlankLine(written)
         /\ lines = << "@HOLE_MIDIFILE:", "AABB", "", "@MIDIFILE:", "CCDD", "", "" >>
              => written = IF t = "raw" THEN <<"AABB", "", "">> ELSE <<"CCDD", "", "">>

(* ---------------------------------------------------------------------- *)
(* get_image_url called once on every manifest of a bounded size.          *)
(* ---------------------------------------------------------------------- *)

MaxSeqs == 2
MaxRenderings == 2

\* The renditions a sequence may list: the greyscale JP2, the monochrome
\* TIFF, the colour JP2.
Renditions(druid) ==
  { Rendering(Url(druid, "_gs.jp2"), "image/jp2"),
    Rendering(Url(druid, "_gr.tiff"), "image/tiff"),
    Rendering(Url(druid, "_0001.jp2"), "image/jp2") }

RECURSIVE SeqsUpTo(_, _)
SeqsUpTo(S, n) ==
  IF n = 0 THEN {<<>>}
  ELSE LET shorter == SeqsUpTo(S, n - 1) IN
       shorter \cup {Append(t, e) : t \in {x \in shorter : Len(x) = n - 1}, e \in S}

\* The three places a sequence keeps its renditions in: seq["renderings"],
\* seq["rendering"], or the first rendering of each of seq["canvases"].
SeqShapes == {"renderings", "rendering", "canvases"}

\* The sequence that keeps renderings in the place shape names, or a
\* sequence with none of the three keys.
ShapedSeq(shape, listed, renderings) ==
  IF ~listed
  THEN [keys |-> {"@id"}, renderings |-> <<>>, rendering |-> <<>>, canvases |-> <<>>]
  ELSE IF shape = "renderings" THEN SeqOfRenderings(renderings)
  ELSE IF shape = "rendering"
  THEN [keys |-> {"@id", "rendering"}, renderings |-> <<>>, rendering |-> renderings,
        canvases |-> <<>>]
  ELSE [keys |-> {"@id", "canvases"}, renderings |-> <<>>, rendering |-> <<>>,
        canvases |-> [i \in 1..Len(renderings) |->
                        [keys |-> {"@id", "rendering"}, rendering |-> <<renderings[i]>>]]]

\* What a sequence of a manifest lists: up to MaxRenderings renditions, or
\* nothing at all.
ManifestSeqs(druid) ==
  {[listed |-> FALSE, renderings |-> <<>>]}
    \cup {[listed |-> TRUE, renderings |-> l] :
            l \in UNION {[1..n -> Renditions(druid)] : n \in 0..MaxRenderings}}

\* The manifest that keeps the sequences lists describes, all of one shape,
\* under key ("sequences" or "items").
ManifestWith(key, shape, lists) ==
  LET seqs == [i \in 1..Len(lists) |->
                 ShapedSeq(shape, lists[i].listed, lists[i].renderings)]
  IN IF key = "sequences" THEN ManifestOf(seqs)
     ELSE [keys |-> {"@id", "items"}, sequences |-> <<>>, items |-> seqs]

InitSelect ==
  /\ druids = <<TheDruid>>
  /\ args = [roll_type |-> "NA", on |-> {}]
  /\ idx = 1
  /\ pc = "call"
  \* no manifest, a manifest with neither key, or up to MaxSeqs sequences
  /\ \/ iiif_manifest \in {NoneVal, [keys |-> {"@id"}, sequences |-> <<>>, items |-> <<>>]}
     \/ \E key \in {"sequences", "items"}, shape \in SeqShapes, n \in 0..MaxSeqs :
          \E lists \in [1..n -> ManifestSeqs(TheDruid)] :
            iiif_manifest = ManifestWith(key, shape, lists)
  /\ roll_type = "NA"
  /\ roll_image = NoneVal
  /\ NoFiles
  /\ images = LocalImages({})
  /\ log = [i \in 1..1 |-> <<>>]
  /\ outcome = [i \in 1..1 |-> "pending"]
  /\ call = NoneVal
  /\ ncalls = 0

CallGetImageUrl ==
  /\ pc = "call" /\ ncalls = 0
  /\ druids = <<TheDruid>>
  /\ LET r == get_image_url(iiif_manifest)
     IN call' = [op |-> "get_image_url", raised |-> r.raised, found |-> r.found,
                 ret |-> r.ret]
  /\ ncalls' = 1
  /\ UNCHANGED << druids, args, idx, pc, iiif_manifest, roll_type, roll_image,
                  manifests, xml, images, txt, midi, binasc_files, log, outcome >>

NextSelect == CallGetImageUrl

SpecSelect == InitSelect /\ [][NextSelect]_vars

(* ---------------------------------------------------------------------- *)
(* Claims about get_image_url                                              *)
(* ---------------------------------------------------------------------- *)

IsSelectCall == call # NoneVal /\ call.op = "get_image_url"

IsGreyscaleJp2(rendering) ==
  /\ rendering.atid.suffix \in {"_ir_sp.jp2", "_gs.jp2"}
  /\ rendering.format = "image/jp2"

IsMonochromeTiff(rendering) ==
  /\ rendering.atid.suffix \in {"_gr.tiff", "_gr.tif"}
  /\ rendering.format \in {"image/tiff", "image/x-tiff-big"}

Offers(renderings, Kind(_)) == \E k \in 1..Len(renderings) : Kind(renderings[k])

\* The manifest has one sequence, which lists its renditions under
\* "renderings" and offers both kinds.
OffersBoth ==
  /\ iiif_manifest # NoneVal
  /\ "sequences" \in iiif_manifest.keys
  /\ Len(iiif_manifest.sequences) = 1
  /\ "renderings" \in iiif_manifest.sequences[1].keys
  /\ Offers(iiif_manifest.sequences[1].renderings, IsGreyscaleJp2)
  /\ Offers(iiif_manifest.sequences[1].renderings, IsMonochromeTiff)

\* C3 as claimed: from a sequence that offers both a greyscale/IR JP2 and a
\* monochrome TIFF, get_image_url returns the greyscale/IR JP2, whatever the
\* order of the two in the list.
C3_GreyscaleJp2PreferredOverTiff ==
  (IsSelectCall /\ OffersBoth) =>
    /\ call.found
    /\ call.ret.suffix \in {"_ir_sp.jp2", "_gs.jp2"}

(* ---------------------------------------------------------------------- *)
(* Claims about main()                                                     *)
(* ---------------------------------------------------------------------- *)

InLog(i, entry) == \E k \in 1..Len(log[i]) : log[i][k] = entry

\* The loop has stopped: the list is exhausted or an exception left main().
Stopped == pc = "crashed" \/ (pc = "loop" /\ idx > Len(druids))

\* C1 as claimed: whatever fails for an item, no error escapes its
\* processing, so when the loop has stopped every identifier of the list
\* is skipped or done.
C1_EveryIdentifierIsProcessed ==
  Stopped => \A i \in 1..Len(druids) : outcome[i] \in {"skipped", "done"}

NoFilesOf(druid) ==
  /\ manifests[druid] = NoneVal
  /\ xml[druid] = NoneVal
  /\ txt[druid] = NoneVal
  /\ midi[druid] = [raw |-> FALSE, note |-> FALSE, exp |-> FALSE]
  /\ binasc_files[druid] = [raw |-> NoneVal, note |-> NoneVal]
  /\ \A p \in ImagePaths : p.druid = druid => images[p] = NoneVal

\* C2: an identifier of ROLLS_TO_SKIP is never requested from the network,
\* never has a file written and never has a tool run for it, whatever the
\* switches; once the loop has passed it, it is skipped.
C2_SkippedIdentifierHasNoEffects ==
  \A i \in 1..Len(druids) :
    druids[i] \in ROLLS_TO_SKIP =>
      /\ log[i] = <<>>
      /\ NoFilesOf(druids[i])
      /\ outcome[i] = IF i < idx THEN "skipped" ELSE "pending"
      /\ i = idx => pc = "loop"

\* A skip-set identifier has been passed, after an identifier that was
\* processed to the end, with switches given.
C2_Witness ==
  /\ Len(druids) = 2 /\ idx = 3
  /\ druids[2] \in ROLLS_TO_SKIP
  /\ outcome = <<"done", "skipped">>
  /\ {"redownload_images", "reprocess_images"} \subseteq args.on

\* main() has run get_roll_type_for_druid for the current identifier.
RollTypeResolved ==
  /\ args.roll_type = "NA"
  /\ pc \in {"image", "parse", "extract", "express", "crashed"}
  /\ idx <= Len(druids)

\* The metadata of the current identifier could not be fetched (no file was
\* written) or the file written cannot be parsed.
MetadataUnusable ==
  \/ xml[druids[idx]] = NoneVal
  \/ xml[druids[idx]].kind \in {"nomods", "malformed"}

\* C9 as claimed: when the metadata cannot be fetched or parsed,
\* get_roll_type_for_druid returns "NA" without raising and tiff2holes is
\* not run for the identifier, --reprocess-images or not.
C9_UnusableMetadataMeansNoAnalysis ==
  (RollTypeResolved /\ MetadataUnusable) =>
    /\ ~InLog(idx, "raise in get_roll_type_for_druid")
    /\ roll_type = "NA"
    /\ ~InLog(idx, "run tiff2holes")

\* main() has run get_image_url and get_roll_image for the current identifier.
ImageResolved ==
  /\ idx <= Len(druids)
  /\ \/ pc \in {"parse", "extract", "express"}
     \/ pc = "crashed" /\ ~InLog(idx, "raise in get_roll_type_for_druid")

\* No manifest, or a manifest in which get_image_url finds nothing.
NoImageUrl ==
  LET u == get_image_url(iiif_manifest) IN ~u.raised /\ ~u.found

\* C10 as claimed: without a manifest, or when get_image_url returns None,
\* get_roll_image requests nothing, does not raise and returns
\* images/<druid>.tiff when that file is there, None when it is not.
C10_NoUrlFallsBackToLocalFile ==
  (ImageResolved /\ NoImageUrl) =>
    /\ ~InLog(idx, "raise in get_roll_image")
    /\ ~InLog(idx, "request image")
    /\ roll_image = IF IsFile(images, TiffPath(druids[idx]))
                    THEN TiffPath(druids[idx]) ELSE NoneVal

(* ---------------------------------------------------------------------- *)
(* More claims about get_roll_image                                        *)
(* ---------------------------------------------------------------------- *)

\* Nothing of the identifier is in images/ when the call starts.
NothingCached ==
  /\ call.target_before = NoneVal
  /\ call.tiff_before = NoneVal
  /\ call.jp2_before = NoneVal

\* The call asked the server for the image and was refused.
FetchFailed == IsImageCall /\ call.requested /\ ~call.status_ok

\* C11 as claimed: when the image request of a fresh materialization is
\* answered with a status other than 200, get_roll_image returns None and
\* does not raise, for every identifier and with or without --mirror-images.
C11_FailedFetchReturnsNone ==
  (FetchFailed /\ NothingCached) =>
    /\ ~call.raised
    /\ call.ret = NoneVal

(* ---------------------------------------------------------------------- *)
(* get_roll_type_for_druid called once on every cached metadata record of  *)
(* a bounded number of notes.                                              *)
(* ---------------------------------------------------------------------- *)

MaxNotes == 3

\* The texts of a note: absent, two texts of the generic "88-note", a third
\* one, three texts of specific types, a text that is no key.
Labels ==
  { "None", "standard", "non-reproducing", "88n", "65n",
    "Welte-Mignon red roll (T-100)", "Duo-Art piano rolls", "Other" }

InitClassify ==
  /\ druids = <<TheDruid>>
  /\ Idle
  /\ manifests = [d \in Druids |-> NoneVal]
  /\ txt = [d \in Druids |-> NoneVal]
  /\ midi = [d \in Druids |-> [raw |-> FALSE, note |-> FALSE, exp |-> FALSE]]
  /\ binasc_files = [d \in Druids |-> [raw |-> NoneVal, note |-> NoneVal]]
  /\ images = LocalImages({})
  /\ \E type_note \in Labels, scale_note \in Labels, notes \in SeqsUpTo(Labels, MaxNotes) :
       xml = [d \in Druids |-> IF d = TheDruid THEN Mods(type_note, scale_note, notes)
                               ELSE NoneVal]

CallGetRollType ==
  /\ pc = "call" /\ ncalls = 0
  /\ druids = <<TheDruid>>
  /\ xml[TheDruid] # NoneVal /\ xml[TheDruid].kind = "mods"
  /\ LET record == xml[TheDruid]
         r == get_roll_type_for_druid(TheDruid, FALSE, xml, [kind |-> "error"])
     IN /\ xml' = r.xml
        /\ call' = [ op |-> "get_roll_type_for_druid", druid |-> TheDruid,
                     type_note |-> record.type_note, scale_note |-> record.scale_note,
                     notes |-> record.notes,
                     trace |-> ClassifyTrace(record.type_note, record.scale_note,
                                             record.notes),
                     raised |-> r.raised, ret |-> r.ret, requested |-> r.requested ]
  /\ ncalls' = 1
  /\ UNCHANGED << druids, args, idx, pc, iiif_manifest, roll_type, roll_image,
                  manifests, images, txt, midi, binasc_files, log, outcome >>

NextClassify == CallGetRollType

SpecClassify == InitClassify /\ [][NextClassify]_vars

(* ---------------------------------------------------------------------- *)
(* Claims about get_roll_type_for_druid                                    *)
(* ---------------------------------------------------------------------- *)

IsClassifyCall == call # NoneVal /\ call.op = "get_roll_type_for_druid"

\* "NA" is unknown, "88-note" the generic type, every other type specific.
Rank(rt) == IF rt = "NA" THEN 0 ELSE IF rt = "88-note" THEN 1 ELSE 2

IsSpecificNote(text) == text \in ROLL_TYPE_KEYS /\ Rank(ROLL_TYPE_ENTRIES(text)) = 2

\* C12: while the roll type of a record is resolved, a specific type is
\* never replaced by "88-note" or "NA", no value is less specific than an
\* earlier one, and the value returned is the last one.
C12_NeverDowngraded ==
  IsClassifyCall =>
    /\ ~call.raised
    /\ call.ret = call.trace[Len(call.trace)]
    /\ \A i, j \in 1..Len(call.trace) :
         i < j => Rank(call.trace[i]) <= Rank(call.trace[j])

\* The loop over the notes found a specific type and met a text of
\* "88-note" after it.
C12_Witness ==
  /\ IsClassifyCall
  /\ call.type_note = "None" /\ call.scale_note = "None"
  /\ Len(call.notes) = 3
  /\ call.notes[1] = "Other"
  /\ call.notes[2] = "Duo-Art piano rolls"
  /\ call.notes[3] = "88n"
  /\ call.ret = "duo-art"

\* C18 as claimed: of two notes with different specific types the earlier
\* one decides: the loop stops at the first specific match.
C18_FirstSpecificNoteWins ==
  (IsClassifyCall /\ call.type_note = "None" /\ call.scale_note = "None") =>
    \A i \in 1..Len(call.notes) :
      (IsSpecificNote(call.notes[i])
         /\ \A k \in 1..(i - 1) : ~IsSpecificNote(call.notes[k]))
        => call.ret = ROLL_TYPE_ENTRIES(call.notes[i])

\* C19 as claimed: the scale note replaces the roll type if and only if it
\* is a key of ROLL_TYPE_ENTRIES and the type note gave nothing or gave the
\* generic "88-note", whatever the text of the type note.
C19_ScaleAppliedAfterAnyGenericType ==
  IsClassifyCall =>
    LET afterType == call.trace[2]
        afterScale == call.trace[3]
    IN IF call.scale_note \in ROLL_TYPE_KEYS /\ Rank(afterType) <= 1
       THEN afterScale = ROLL_TYPE_ENTRIES(call.scale_note)
       ELSE afterScale = afterType

\* The sequences of the manifest, in document order.
SeqsOf(manifest) ==
  IF manifest = NoneVal THEN <<>>
  ELSE IF "sequences" \in manifest.keys THEN manifest.sequences
  ELSE IF "items" \in manifest.keys THEN manifest.items
  ELSE <<>>

\* The candidate renditions of a sequence in each of the three shapes.
Candidates(seq) ==
  IF "renderings" \in seq.keys THEN seq.renderings
  ELSE IF "rendering" \in seq.keys THEN seq.rendering
  ELSE IF "canvases" \in seq.keys
       THEN [i \in 1..Len(seq.canvases) |-> seq.canvases[i].rendering[1]]
  ELSE <<>>

\* A sequence without exactly one candidate and without a greyscale JP2 or
\* a monochrome TIFF: the selection moves on to the next sequence.
YieldsNothing(seq) ==
  /\ Len(Candidates(seq)) # 1
  /\ ~Offers(Candidates(seq), IsGreyscaleJp2)
  /\ ~Offers(Candidates(seq), IsMonochromeTiff)

\* C13: when the sequences before it yield nothing, a sequence with exactly
\* one candidate rendition decides: get_image_url returns that rendition's
\* location whatever its format and suffix, in each of the three shapes.
C13_SingleRenditionIsReturned ==
  IsSelectCall =>
    \A k \in 1..Len(SeqsOf(iiif_manifest)) :
      (Len(Candidates(SeqsOf(iiif_manifest)[k])) = 1
         /\ \A j \in 1..(k - 1) : YieldsNothing(SeqsOf(iiif_manifest)[j]))
        => /\ ~call.raised
           /\ call.found
           /\ call.ret = Candidates(SeqsOf(iiif_manifest)[k])[1].atid

\* A sequence of two colour JP2s is passed over and the one colour JP2 of
\* the per-page entries of the second sequence is returned.
C13_Witness ==
  /\ IsSelectCall
  /\ Len(SeqsOf(iiif_manifest)) = 2
  /\ Len(Candidates(SeqsOf(iiif_manifest)[1])) = 2
  /\ YieldsNothing(SeqsOf(iiif_manifest)[1])
  /\ "canvases" \in SeqsOf(iiif_manifest)[2].keys
  /\ Len(Candidates(SeqsOf(iiif_manifest)[2])) = 1
  /\ call.found
  /\ call.ret = Url(TheDruid, "_0001.jp2")

(* ---------------------------------------------------------------------- *)
(* apply_midi_expressions called again and again for one identifier, with  *)
(* every roll type main() can pass, the note and expression .mid files     *)
(* present or not.  main() runs midi2exp nowhere else (lines 688-689).     *)
(* ---------------------------------------------------------------------- *)

\* What main() holds in roll_type: --roll-type or the value returned by
\* get_roll_type_for_druid, which is a type, "NA" or None.
RollTypeValues == ROLL_TYPES \cup {"NA", "None"}

InitExpress ==
  /\ druids = <<TheDruid>>
  /\ Idle
  /\ manifests = [d \in Druids |-> NoneVal]
  /\ xml = [d \in Druids |-> NoneVal]
  /\ txt = [d \in Druids |-> NoneVal]
  /\ binasc_files = [d \in Druids |-> [raw |-> NoneVal, note |-> NoneVal]]
  /\ images = LocalImages({})
  /\ \E raw \in BOOLEAN, note \in BOOLEAN, exp \in BOOLEAN :
       midi = [d \in Druids |-> IF d = TheDruid
                                THEN [raw |-> raw, note |-> note, exp |-> exp]
                                ELSE [raw |-> FALSE, note |-> FALSE, exp |-> FALSE]]

CallApplyMidiExpressions ==
  /\ pc = "call" /\ ncalls < MaxCalls
  /\ druids = <<TheDruid>>
  /\ \E rt \in RollTypeValues, midi2exp_exists \in BOOLEAN, synthesized \in BOOLEAN :
       LET r == apply_midi_expressions(TheDruid, rt, midi2exp_exists, midi, synthesized)
       IN /\ midi' = r.midi
          /\ call' = [ op |-> "apply_midi_expressions", druid |-> TheDruid,
                       roll_type |-> rt, midi2exp_exists |-> midi2exp_exists,
                       midi_before |-> midi[TheDruid], invoked |-> r.invoked ]
  /\ ncalls' = ncalls + 1
  /\ UNCHANGED << druids, args, idx, pc, iiif_manifest, roll_type, roll_image,
                  manifests, xml, images, txt, binasc_files, log, outcome >>

NextExpress == CallApplyMidiExpressions

SpecExpress == InitExpress /\ [][NextExpress]_vars

IsExpressCall == call # NoneVal /\ call.op = "apply_midi_expressions"

\* C14: midi2exp is never run for a roll of type "65-note", whether or not
\* the note and expression .mid files exist, and the files stay as they are.
C14_NoExpressionFor65Note ==
  (IsExpressCall /\ call.roll_type = "65-note") =>
    /\ ~call.invoked
    /\ midi[TheDruid] = call.midi_before

\* A "65-note" roll whose note .mid file exists, with midi2exp in place.
C14_Witness ==
  /\ IsExpressCall
  /\ call.roll_type = "65-note"
  /\ call.midi2exp_exists
  /\ call.midi_before["note"]
  /\ ~call.invoked

(* ---------------------------------------------------------------------- *)
(* Lines 658-662 of main() run for one identifier on every state of        *)
(* xml/<druid>.xml an earlier run can have left, with and without          *)
(* --roll-type and --redownload-metadata.                                  *)
(* ---------------------------------------------------------------------- *)

\* The loop body of main() is about to run statement at for druids[1].
AtStatement(at) ==
  /\ druids \in {<<d>> : d \in Druids \ ROLLS_TO_SKIP}
  /\ idx = 1
  /\ pc = at
  /\ iiif_manifest = NoneVal
  /\ manifests = [d \in Druids |-> NoneVal]
  /\ midi = [d \in Druids |-> [raw |-> FALSE, note |-> FALSE, exp |-> FALSE]]
  /\ binasc_files = [d \in Druids |-> [raw |-> NoneVal, note |-> NoneVal]]
  /\ images = LocalImages({})
  /\ log = [i \in 1..1 |-> <<>>]
  /\ outcome = [i \in 1..1 |-> "pending"]
  /\ call = NoneVal
  /\ ncalls = 0

InitResolve ==
  /\ AtStatement("roll_type")
  /\ args \in [roll_type : {"NA"} \cup ROLL_TYPES, on : SUBSET {"redownload_metadata"}]
  /\ roll_type = "NA"
  /\ roll_image = NoneVal
  /\ txt = [d \in Druids |-> NoneVal]
  /\ \E cached \in {NoneVal} \cup (XmlResponses \ {[kind |-> "error"]}) :
       xml = [d \in Druids |-> IF d = druids[1] THEN cached ELSE NoneVal]

NextResolve == GetRollType

SpecResolve == InitResolve /\ [][NextResolve]_vars

\* C15: with --roll-type given, that value becomes the roll type of the
\* identifier, nothing is requested, and xml/<druid>.xml is neither read
\* (an unreadable file does not make the step raise) nor written, with or
\* without --redownload-metadata.
C15_GivenRollTypeBypassesMetadata ==
  [][ args.roll_type # "NA" =>
        /\ roll_type' = args.roll_type
        /\ xml' = xml
        /\ log' = log
        /\ pc' = "image" ]_vars

\* --roll-type and --redownload-metadata were given and the cached file has
\* no "<mods" in it: reading it would have raised.
C15_Witness ==
  /\ pc = "image"
  /\ args.roll_type = "65-note"
  /\ "redownload_metadata" \in args.on
  /\ xml[druids[1]] = [kind |-> "nomods"]
  /\ roll_type = "65-note"
  /\ log[1] = <<>>

(* ---------------------------------------------------------------------- *)
(* Lines 673-684 of main() run for one identifier, with or without the     *)
(* report of an earlier run and --reprocess-images.  tiff2holes writes     *)
(* txt/<druid>.txt and logs/<druid>.err in one command (line 443): the     *)
(* diagnostics file changes exactly when the report does.                  *)
(* ---------------------------------------------------------------------- *)

InitParse ==
  /\ AtStatement("parse")
  /\ args \in [roll_type : {"NA"}, on : SUBSET {"reprocess_images"}]
  /\ roll_type \in RollTypeValues
  /\ roll_image \in {NoneVal, TiffPath(druids[1])}
  /\ xml = [d \in Druids |-> NoneVal]
  /\ \E report \in {NoneVal} \cup {[lines |-> r] : r \in Reports} :
       txt = [d \in Druids |-> IF d = druids[1] THEN report ELSE NoneVal]

NextParse == ParseImage

SpecParse == InitParse /\ [][NextParse]_vars

\* C16: tiff2holes is run for an identifier only if --reprocess-images is
\* given or the identifier has no report; with a report and without
\* --reprocess-images nothing is run and the report stays as it is.
C16_ParseOnlyWithoutReportOrOnReprocess ==
  [][ /\ InLog(idx, "run tiff2holes")'
           => (Flag("reprocess_images") \/ txt[druids[idx]] = NoneVal)
      /\ (txt[druids[idx]] # NoneVal /\ ~Flag("reprocess_images"))
           => (txt' = txt /\ log' = log) ]_vars

\* The statement has run for an identifier that has an image, a roll type
\* and a report, without --reprocess-images, and has run nothing.
C16_Witness ==
  /\ pc = "extract"
  /\ "reprocess_images" \notin args.on
  /\ txt[druids[1]] # NoneVal
  /\ roll_image # NoneVal
  /\ roll_type \in ROLL_TYPES
  /\ log[1] = <<>>

(* ---------------------------------------------------------------------- *)
(* Claims about the flips and the fetch of get_roll_image                  *)
(* ---------------------------------------------------------------------- *)

\* A call with --mirror-images that wrote the file it returns.
FreshWithMirror == FreshlyMaterialized /\ call.mirror_roll

\* C17 as claimed: on a fresh materialization with --mirror-images the
\* left-right mirror is applied if and only if the call made no automatic
\* flip, neither the top-bottom flip of a converted JP2 nor the left-right
\* flip of a REVERSED_IMAGES identifier.
C17_MirrorIffNoAutomaticFlip ==
  FreshWithMirror => (call.user <=> ~(call.tbflip \/ call.auto))

\* C17 as amended: the mirror is applied if and only if the call did not
\* make the left-right flip of a REVERSED_IMAGES identifier; the top-bottom
\* flip of a converted JP2 does not suppress it.  Either way the file ends
\* mirrored once relative to the source.
C17_MirrorIffNoReversedFlip ==
  FreshWithMirror =>
    /\ call.user <=> ~call.auto
    /\ call.auto <=> call.druid \in REVERSED_IMAGES
    /\ images[call.ret].lr = 1

\* A JP2 was converted and flipped top-bottom, and mirrored as asked.
C17_Witness ==
  /\ FreshWithMirror
  /\ EndsWith(call.image_url, ".jp2")
  /\ call.tbflip
  /\ ~call.auto
  /\ call.user

\* C20 as claimed: with --redownload-images every call requests the image
\* again, a JP2 whose downloaded source is still on disk included, and the
\* file returned is built from the bytes of this request.
C20_RedownloadFetchesAgain ==
  (IsImageCall /\ call.redownload_image) =>
    /\ call.requested
    /\ (call.status_ok /\ ~call.raised) => images[call.ret].gen = ncalls

(* ---------------------------------------------------------------------- *)
(* The order of the stages within one identifier.                          *)
(* ---------------------------------------------------------------------- *)

ManifestEffects == {"request manifest", "write manifest"}

MetadataEffects == {"request xml", "write xml", "raise in get_roll_type_for_druid"}

MaterializeEffects ==
  {"raise in get_image_url", "request image", "write image", "flip top-bottom",
   "flip left-right", "raise in get_roll_image"}

ExtractEffects ==
  {"run binasc raw", "run binasc note", "raise in extract_midi_from_analysis"}

\* The position of an effect's stage in the order of the loop body.
StageInCode(entry) ==
  IF entry \in ManifestEffects THEN 1
  ELSE IF entry \in MetadataEffects THEN 2
  ELSE IF entry \in MaterializeEffects THEN 3
  ELSE IF entry = "run tiff2holes" THEN 4
  ELSE IF entry \in ExtractEffects THEN 5
  ELSE 6

\* The position of an effect's stage in the claimed order: ResolveMetadata,
\* then ResolveAsset with manifest resolution as its first part.
StageAsClaimed(entry) ==
  IF entry \in MetadataEffects THEN 1
  ELSE IF entry \in ManifestEffects \cup MaterializeEffects THEN 2
  ELSE IF entry = "run tiff2holes" THEN 4
  ELSE IF entry \in ExtractEffects THEN 5
  ELSE 6

EffectsInCodeOrder(l) ==
  \A j \in 1..Len(l) : \A k \in j..Len(l) : StageInCode(l[j]) <= StageInCode(l[k])

EffectsInClaimedOrder(l) ==
  \A j \in 1..Len(l) : \A k \in j..Len(l) : StageAsClaimed(l[j]) <= StageAsClaimed(l[k])

\* C21 as claimed: for every identifier that is not skipped, the effects of
\* ResolveMetadata come before those of ResolveAsset (manifest resolution
\* included), which come before analysis, extraction and synthesis, and the
\* identifier reaches Done with extraction and synthesis attempted.
C21_StagesInClaimedOrder ==
  \A i \in 1..Len(druids) :
    /\ EffectsInClaimedOrder(log[i])
    /\ (Stopped /\ ~InSkipList(druids[i])) => outcome[i] = "done"

\* C21, amended: the manifest is resolved first (line 656), then the
\* metadata, then the asset is selected and materialized, then analysis,
\* extraction and synthesis; every effect of a stage comes after all effects
\* of the stages before it, a stage that returns, with or without effects,
\* is followed by the next one, and only an exception raised by metadata
\* resolution, asset resolution or extraction ends the run before Done.
C21_StagesInCodeOrder ==
  [][ /\ \A i \in 1..Len(druids) : EffectsInCodeOrder(log'[i])
      /\ pc = "manifest"  => pc' = "roll_type"
      /\ pc = "roll_type" => pc' \in {"image", "crashed"}
      /\ pc = "image"     => pc' \in {"parse", "crashed"}
      /\ pc = "parse"     => pc' = "extract"
      /\ pc = "extract"   => pc' \in {"express", "crashed"}
      /\ pc = "express"   => (pc' = "loop" /\ outcome'[idx] = "done")
      /\ pc' = "crashed"  => \E e \in {"raise in get_roll_type_for_druid",
                                       "raise in get_image_url",
                                       "raise in get_roll_image",
                                       "raise in extract_midi_from_analysis"} :
                               InLog(idx, e)' ]_vars

\* An identifier is done whose manifest and metadata were both requested, in
\* that order, whose image was written and whose analysis was a no-op: the
\* extraction and synthesis statements were still executed.
C21_Witness ==
  \E i \in 1..Len(druids) :
    /\ outcome[i] = "done"
    /\ Len(log[i]) >= 3
    /\ log[i][1] = "request manifest"
    /\ InLog(i, "request xml")
    /\ InLog(i, "write image")
    /\ ~InLog(i, "run tiff2holes")

(* ---------------------------------------------------------------------- *)
(* Repeated mirror runs on a converted JP2.                                *)
(* ---------------------------------------------------------------------- *)

\* The last call was a run with --mirror-images and without
\* --redownload-images on a JP2 source whose TIFF was already cached at
\* images/<druid>.tiff.
MirrorRerun ==
  /\ IsImageCall
  /\ EndsWith(call.image_url, ".jp2")
  /\ call.mirror_roll /\ ~call.redownload_image
  /\ call.tiff_before # NoneVal

MaxRuns == 3

\* The first run reaches line 673 with no report on disk.
InitReparse ==
  /\ AtStatement("parse")
  /\ args \in [roll_type : {"NA"}, on : SUBSET {"reprocess_images"}]
  /\ roll_type \in RollTypeValues
  /\ roll_image \in {NoneVal, TiffPath(druids[1])}
  /\ xml = [d \in Druids |-> NoneVal]
  /\ txt = [d \in Druids |-> NoneVal]

\* The program is started again for the same identifier and reaches line 673:
\* the files in txt/ are as the run before left them, the command line, the
\* roll type and the image are those of the new run.
NextRun ==
  /\ pc = "extract" /\ ncalls + 1 < MaxRuns
  /\ pc' = "parse"
  /\ ncalls' = ncalls + 1
  /\ args' \in [roll_type : {"NA"}, on : SUBSET {"reprocess_images"}]
  /\ roll_type' \in RollTypeValues
  /\ roll_image' \in {NoneVal, TiffPath(druids[1])}
  /\ Logged(<< "next run" >>)
  /\ UNCHANGED << druids, idx, iiif_manifest, manifests, xml, images, txt, midi,
                  binasc_files, outcome, call >>

NextReparse == ParseImage \/ NextRun

SpecReparse == InitReparse /\ [][NextReparse]_vars

\* C23: once tiff2holes has been invoked for an identifier there is a report
\* at txt/<druid>.txt, whatever the tool printed, and a later run without
\* --reprocess-images that reaches the parse statement invokes nothing and
\* leaves the report as it is, an empty report included.
C23_InvokedOnceThenNeverWithoutReprocess ==
  [][ /\ InLog(idx, "run tiff2holes")' => txt'[druids[idx]] # NoneVal
      /\ (InLog(idx, "run tiff2holes") /\ pc = "parse" /\ ~Flag("reprocess_images"))
           => (txt' = txt /\ log' = log) ]_vars

\* The first run invoked tiff2holes, which printed nothing; the second run,
\* without --reprocess-images, with an image and a roll type, has passed the
\* parse statement and invoked nothing.
C23_Witness ==
  /\ pc = "extract"
  /\ log[1] = << "run tiff2holes", "next run" >>
  /\ txt[druids[1]] = [lines |-> << "" >>]
  /\ "reprocess_images" \notin args.on
  /\ roll_image # NoneVal
  /\ roll_type \in ROLL_TYPES

====
